---- MODULE Spec2Model ----
(***************************************************************************)
(* Order placement, cart pricing and soft deletion of the e-commerce       *)
(* backend: orderModel.js (second schema, with orderId and deleted),       *)
(* the order service (createCashOrder, lookups, transitions, the card      *)
(* webhook) and the cart service.                                          *)
(*                                                                         *)
(* Money is an integer number of 1/100 cent, so that a percentage of a     *)
(* price in cents is exact: 10.00 is 100000.  Dates are integers (now).    *)
(* A field that is undefined in the store holds Undefined.                 *)
(***************************************************************************)
EXTENDS Integers, Sequences, FiniteSets, TLC

VARIABLES
    orders,      \* the Order collection, in insertion order (_id = index)
    createdFrom, \* history: for each order, the cart id it was built from, or 0
    products,    \* the Product collection
    carts,       \* the Cart collection, in insertion order (_id = index)
    now,         \* Date.now()
    po,          \* the createCashOrder requests in flight
    wh,          \* the webhookCheckout deliveries in flight
    cp,          \* the cart-service requests in flight
    tr           \* the order transitions (paid, delivered, deleted) in flight

vars == <<orders, createdFrom, products, carts, now, po, wh, cp, tr>>

---------------------------------------------------------------------------
\* Bounds of the model.

\* generateOrderId draws from 62^6 strings; the model draws from 1..NumIds.
NumIds == 3
\* Date.now() runs over 0..MaxTime.
MaxTime == 2

Undefined == 0 - 1

OrderIds == 1 .. NumIds
Users == {"u1", "u2"}
ProductIds == {"p1", "p2"}
OrderProcs == {"a", "b"}

Cents(c) == c * 100

Max(a, b) == IF a >= b THEN a ELSE b

RECURSIVE SumSeq(_)
SumSeq(s) == IF s = <<>> THEN 0 ELSE Head(s) + SumSeq(Tail(s))

Has(f, k) == k \in DOMAIN f
Get(f, k, d) == IF k \in DOMAIN f THEN f[k] ELSE d

---------------------------------------------------------------------------
\* productModel.js: the catalog.  Prices 10.00 and 9.99.

InitProducts ==
    [p \in ProductIds |->
        IF p = "p1" THEN [title |-> "cake", price |-> Cents(1000), sold |-> 0]
                    ELSE [title |-> "tart", price |-> Cents(999), sold |-> 0]]

\* The catalog of the Product schema the earlier order service and the cart
\* service were written for (select('title price quantity')): each product
\* also has its available quantity.
StockProducts ==
    [p \in ProductIds |->
        [k \in DOMAIN InitProducts[p] \cup {"quantity"} |->
            IF k = "quantity" THEN 1 ELSE InitProducts[p][k]]]

\* Product.findById(id): the product, or none for an unknown id.
ProductExists(id) == id \in DOMAIN products

\* product.quantity < quantity: false when the product document has no
\* quantity (undefined < n is false).
StockInsufficient(productId, quantity) ==
    /\ Has(products[productId], "quantity")
    /\ products[productId].quantity < quantity

---------------------------------------------------------------------------
\* couponModel.js: the coupons in the store.  OVER and NEG carry a discount
\* outside the schema's range, NOEXP no expire and BADEXP an expire that is
\* not a date, which an update that skips validators leaves.  expireKind
\* says which of the three expire is; expire is the date when it is one.
Coupons ==
    [name \in {"SAVE20", "P15", "HALF", "FULL", "OLD", "SOON", "OVER", "NEG",
               "NOEXP", "BADEXP"} |->
        CASE name = "SAVE20" ->
                [discount |-> 20, expire |-> MaxTime + 10, expireKind |-> "date"]
          [] name = "P15" ->
                [discount |-> 15, expire |-> MaxTime + 10, expireKind |-> "date"]
          [] name = "HALF" ->
                [discount |-> 50, expire |-> MaxTime + 10, expireKind |-> "date"]
          [] name = "FULL" ->
                [discount |-> 100, expire |-> MaxTime + 10, expireKind |-> "date"]
          [] name = "OLD" ->
                [discount |-> 20, expire |-> 0 - 5, expireKind |-> "date"]
          [] name = "SOON" ->
                [discount |-> 20, expire |-> 1, expireKind |-> "date"]
          [] name = "OVER" ->
                [discount |-> 150, expire |-> MaxTime + 10, expireKind |-> "date"]
          [] name = "NEG" ->
                [discount |-> 0 - 50, expire |-> MaxTime + 10, expireKind |-> "date"]
          [] name = "NOEXP" ->
                [discount |-> 20, expire |-> MaxTime + 10, expireKind |-> "none"]
          [] OTHER ->
                [discount |-> 20, expire |-> MaxTime + 10, expireKind |-> "invalid"]]

\* Coupon.findOne({ name }): whether a coupon of that name exists.
CouponExists(name) == name \in DOMAIN Coupons

---------------------------------------------------------------------------
\* orderModel.js (second schema).

maxRetries == 5

\* The document Order.create builds from its argument: the schema's paths
\* only (strict mode drops every other key), each with its default.
OrderLine(item) ==
    [product |-> item.product,
     quantity |-> item.quantity,
     price |-> item.price,
     name |-> Get(item, "name", "")]

NewOrderDoc(data) ==
    [orderId |-> Get(data, "orderId", Undefined),
     user |-> Get(data, "user", "none"),
     cartItems |-> [i \in 1 .. Len(data.cartItems) |-> OrderLine(data.cartItems[i])],
     totalBeforeDiscount |-> Get(data, "totalBeforeDiscount", Undefined),
     totalAfterDiscount |-> Get(data, "totalAfterDiscount", Undefined),
     coupon |-> Get(data, "coupon", "none"),
     paymentMethodType |-> Get(data, "paymentMethodType", "cash"),
     isPaid |-> Get(data, "isPaid", FALSE),
     paidAt |-> Get(data, "paidAt", Undefined),
     isDelivered |-> FALSE,
     deliveredAt |-> Undefined,
     deleted |-> FALSE,
     deletedAt |-> Undefined]

OrderIdxs == 1 .. Len(orders)

\* pre(/^find/): the default filter is lifted only when the query's FILTER
\* (getQuery()) has a truthy includeDeleted; otherwise where({deleted: {$ne:
\* true}}) replaces whatever the filter said about deleted.
PreFindNoFilter(q) == q

PreFind(q) ==
    IF Get(q.conds, "includeDeleted", FALSE)
    THEN q
    ELSE [q EXCEPT !.conds =
            [k \in DOMAIN q.conds \cup {"deleted"} |->
                IF k = "deleted" THEN "neTrue" ELSE q.conds[k]]]

\* Whether order i matches a filter over _id, orderId, user and deleted.
Matches(i, conds) ==
    /\ Has(conds, "_id") => i = conds["_id"]
    /\ Has(conds, "orderId") => orders[i].orderId = conds["orderId"]
    /\ Has(conds, "user") => orders[i].user = conds["user"]
    /\ Has(conds, "deleted") =>
          IF conds["deleted"] = "neTrue" THEN ~orders[i].deleted
                                         ELSE orders[i].deleted

\* Order.find(conds).setOptions(options): the _ids found, the hook applied.
OrderFind(conds, options) ==
    LET q == PreFind([conds |-> conds, options |-> options])
    IN {i \in OrderIdxs : Matches(i, q.conds)}

\* Order.findOne / findById: the first match, or 0 for null.
OrderFindOne(conds, options) ==
    LET found == OrderFind(conds, options)
    IN IF found = {} THEN 0 ELSE CHOOSE i \in found : \A j \in found : i <= j

NoOptions == [x \in {} |-> FALSE]

\* The unique index on orderId: it covers every document, deleted or not.
DuplicateKeyNoIndex(id) == FALSE

DuplicateKey(id) == \E i \in OrderIdxs : orders[i].orderId = id

---------------------------------------------------------------------------
\* The order service: createCashOrder (percentage coupons, sold counter).

NoData == [none |-> TRUE]
NoResult == [status |-> 0, error |-> ""]
Failure(status, error) == [status |-> status, error |-> error]

\* earlier: the request is served by the earlier revision of the service.
\* notified: history, whether the e-mails of the request went out ("sent") or
\* the sender failed ("failed").
\* seen: history, the price and title of every product when the request
\* looked its products up.
IdlePo ==
    [pc |-> "idle", data |-> NoData, id |-> 0, retries |-> 0,
     isUnique |-> FALSE, order |-> 0, earlier |-> FALSE, notified |-> "",
     seen |-> NoData, result |-> NoResult]

Catalog ==
    [id \in DOMAIN products |->
        [price |-> products[id].price, title |-> products[id].title]]

\* A request that has been answered: its locals are gone, the response stays.
Done(order, result) == [IdlePo EXCEPT !.pc = "done", !.order = order, !.result = result]

\* A webhook delivery has the same locals, and the cart id of its session.
IdleWh == [k \in DOMAIN IdlePo \cup {"cart"} |-> IF k = "cart" THEN 0 ELSE IdlePo[k]]

WhDone(result) == [IdleWh EXCEPT !.pc = "done", !.result = result]

\* 1) Validate input: the products array.
ProductsInvalidNoEmptyCheck(req) == req.products.kind # "array"

ProductsInvalid(req) ==
    \/ req.products.kind # "array"
    \/ Len(req.products.items) = 0

\* 1) Validate input: the shipping address and its required fields.
AddressInvalid(req) ==
    LET a == req.shippingAddress
    IN \/ ~a.isObject
       \/ ~(a.alias /\ a.details /\ a.phone /\ a.city)

\* 2) The per-line checks made before the product lookup is awaited.
LineInvalid(line) == line.id = "" \/ line.quantity <= 0

\* 2) One validated line.
ValidatedLineUnitTotal(line) ==
    [product |-> line.id,
     title |-> products[line.id].title,
     price |-> products[line.id].price,
     quantity |-> line.quantity,
     total |-> products[line.id].price]

ValidatedLine(line) ==
    [product |-> line.id,
     title |-> products[line.id].title,
     price |-> products[line.id].price,
     quantity |-> line.quantity,
     total |-> products[line.id].price * line.quantity]

ProductValidations(req) ==
    [i \in 1 .. Len(req.products.items) |-> ValidatedLine(req.products.items[i])]

CartItemsOf(validations) ==
    [i \in 1 .. Len(validations) |->
        [product |-> validations[i].product,
         price |-> validations[i].price,
         name |-> validations[i].title,
         quantity |-> validations[i].quantity]]

Subtotal(validations) ==
    SumSeq([i \in 1 .. Len(validations) |-> validations[i].total])

\* 3) The coupon checks, in the code's order; "" when the coupon passes.
DiscountOutOfRangeUnchecked(d) == FALSE

DiscountOutOfRange(d) == d < 0 \/ d > 100

CouponError(name) ==
    IF ~CouponExists(name) THEN "InvalidCoupon"
    ELSE IF Coupons[name].expireKind = "none" THEN "NoExpiry"
    ELSE IF Coupons[name].expireKind = "invalid" THEN "InvalidExpiry"
    ELSE IF Coupons[name].expire < now THEN "ExpiredCoupon"
    ELSE IF DiscountOutOfRange(Coupons[name].discount) THEN "InvalidDiscount"
    ELSE ""

\* 3) discountAmount and totalAfterDiscount of a percentage coupon.
DiscountAmount(totalBeforeDiscount, discountPercentage) ==
    (totalBeforeDiscount * discountPercentage) \div 100

TotalAfterDiscount(totalBeforeDiscount, discountPercentage) ==
    Max(0, totalBeforeDiscount
           - DiscountAmount(totalBeforeDiscount, discountPercentage))

\* The failure createCashOrder reports before Order.create, or NoResult.
CashOrderError(req) ==
    IF ProductsInvalid(req) THEN Failure(400, "InvalidInput")
    ELSE IF AddressInvalid(req) THEN Failure(400, "InvalidAddress")
    ELSE IF \E i \in 1 .. Len(req.products.items) : LineInvalid(req.products.items[i])
        THEN Failure(400, "InvalidLine")
    ELSE IF \E i \in 1 .. Len(req.products.items) :
                ~ProductExists(req.products.items[i].id)
        THEN Failure(404, "ProductNotFound")
    ELSE IF req.coupon # "" /\ CouponError(req.coupon) # ""
        THEN Failure(400, CouponError(req.coupon))
    ELSE NoResult

\* 4) orderData, as handed to Order.create.
OrderData(req) ==
    LET validations == ProductValidations(req)
        totalBeforeDiscount == Subtotal(validations)
    IN [user |-> req.user,
        cartItems |-> CartItemsOf(validations),
        totalBeforeDiscount |-> totalBeforeDiscount,
        totalAfterDiscount |->
            IF req.coupon # ""
            THEN TotalAfterDiscount(totalBeforeDiscount, Coupons[req.coupon].discount)
            ELSE totalBeforeDiscount,
        coupon |-> IF req.coupon # "" THEN req.coupon ELSE "none",
        paymentMethodType |-> "cash"]

\* createCashOrder up to the call of Order.create.
createCashOrder(p, req) ==
    /\ po[p].pc = "idle"
    /\ po' = [po EXCEPT ![p] =
                IF CashOrderError(req) # NoResult
                THEN Done(0, CashOrderError(req))
                ELSE [@ EXCEPT !.pc = "gen", !.data = OrderData(req),
                               !.seen = Catalog]]
    /\ UNCHANGED <<orders, createdFrom, products, carts, now, wh, cp, tr>>

\* The earlier revision of createCashOrder: the address needs a name, a
\* line needs an id and enough stock, and a coupon is a fixed amount.
AddressInvalidEarlier(req) ==
    LET a == req.shippingAddress
    IN \/ ~a.isObject
       \/ ~(a.details /\ a.city /\ a.phone /\ a.name)

CashOrderErrorEarlier(req) ==
    LET items == req.products.items
    IN IF ProductsInvalid(req) THEN Failure(400, "InvalidInput")
       ELSE IF AddressInvalidEarlier(req) THEN Failure(400, "InvalidAddress")
       ELSE IF \E i \in 1 .. Len(items) : items[i].id = ""
           THEN Failure(400, "InvalidLine")
       ELSE IF \E i \in 1 .. Len(items) : ~ProductExists(items[i].id)
           THEN Failure(404, "ProductNotFound")
       ELSE IF \E i \in 1 .. Len(items) :
                   StockInsufficient(items[i].id, items[i].quantity)
           THEN Failure(400, "InsufficientStock")
       ELSE IF req.coupon # "" /\ ~CouponExists(req.coupon)
           THEN Failure(400, "InvalidCoupon")
       ELSE IF req.coupon # "" /\ Coupons[req.coupon].expireKind = "none"
           THEN Failure(400, "NoExpiry")
       ELSE IF req.coupon # "" /\ Coupons[req.coupon].expireKind = "invalid"
           THEN Failure(400, "InvalidExpiry")
       ELSE IF req.coupon # "" /\ Coupons[req.coupon].expire < now
           THEN Failure(400, "ExpiredCoupon")
       ELSE NoResult

\* discountAmount = couponDoc.discount: an amount of money, not a percentage.
TotalAfterFixedDiscount(totalBeforeDiscount, discount) ==
    Max(0, totalBeforeDiscount - Cents(100) * discount)

OrderDataEarlier(req) ==
    LET validations == ProductValidations(req)
        totalBeforeDiscount == Subtotal(validations)
    IN [user |-> req.user,
        cartItems |-> CartItemsOf(validations),
        totalBeforeDiscount |-> totalBeforeDiscount,
        totalAfterDiscount |->
            IF req.coupon # ""
            THEN TotalAfterFixedDiscount(totalBeforeDiscount,
                                         Coupons[req.coupon].discount)
            ELSE totalBeforeDiscount,
        coupon |-> IF req.coupon # "" THEN req.coupon ELSE "none",
        paymentMethodType |-> "cash"]

createCashOrderEarlier(p, req) ==
    /\ po[p].pc = "idle"
    /\ po' = [po EXCEPT ![p] =
                IF CashOrderErrorEarlier(req) # NoResult
                THEN Done(0, CashOrderErrorEarlier(req))
                ELSE [@ EXCEPT !.pc = "gen", !.earlier = TRUE,
                               !.data = OrderDataEarlier(req),
                               !.seen = Catalog]]
    /\ UNCHANGED <<orders, createdFrom, products, carts, now, wh, cp, tr>>

GenTurnNoLimit(r, id) ==
    LET existingOrder == OrderFindOne([orderId |-> id], NoOptions)
        isUnique == existingOrder = 0
        retries == r.retries + 1
    IN IF isUnique
       THEN [r EXCEPT !.pc = "insert", !.id = id, !.isUnique = TRUE,
                      !.retries = retries]
       ELSE [r EXCEPT !.retries = retries]

\* pre('validate') of Order.create: one turn of the loop on the locals r of
\* a creation.  A candidate is drawn, looked up with Order.findOne (through
\* the find hook) and counted.  When the loop ends, the id is assigned (pc
\* "insert") or the creation fails (pc "exhausted").
GenTurn(r, id) ==
    LET existingOrder == OrderFindOne([orderId |-> id], NoOptions)
        isUnique == existingOrder = 0
        retries == r.retries + 1
    IN IF isUnique
       THEN [r EXCEPT !.pc = "insert", !.id = id, !.isUnique = TRUE,
                      !.retries = retries]
       ELSE IF retries < maxRetries
       THEN [r EXCEPT !.retries = retries]
       ELSE [r EXCEPT !.pc = "exhausted"]

\* The document that Order.create stores for the locals r.
CreatedDoc(r) ==
    NewOrderDoc([k \in DOMAIN r.data \cup {"orderId"} |->
                    IF k = "orderId" THEN r.id ELSE r.data[k]])

preValidate(p) ==
    /\ po[p].pc = "gen"
    /\ ~po[p].isUnique /\ po[p].retries < maxRetries
    /\ \E id \in OrderIds :
         po' = [po EXCEPT ![p] =
                  IF GenTurn(po[p], id).pc = "exhausted"
                  THEN Done(0, Failure(500, "IdGenerationExhausted"))
                  ELSE GenTurn(po[p], id)]
    /\ UNCHANGED <<orders, createdFrom, products, carts, now, wh, cp, tr>>

\* The insert of Order.create, under the unique index on orderId.  The
\* locals of pre('validate') end with the hook.
orderInsert(p) ==
    /\ po[p].pc = "insert"
    /\ IF DuplicateKey(po[p].id)
       THEN /\ po' = [po EXCEPT ![p] = Done(0, Failure(500, "DuplicateKey"))]
            /\ UNCHANGED <<orders, createdFrom>>
       ELSE /\ orders' = Append(orders, CreatedDoc(po[p]))
            /\ createdFrom' = Append(createdFrom, 0)
            /\ po' = [po EXCEPT ![p] =
                        [IdlePo EXCEPT !.pc = "bulk", !.order = Len(orders) + 1,
                                       !.data = po[p].data,
                                       !.earlier = po[p].earlier,
                                       !.seen = po[p].seen]]
    /\ UNCHANGED <<products, carts, now, wh, cp, tr>>

\* The $inc updates of one bulkWrite, applied to the catalog line by line.
RECURSIVE ApplyInc(_, _, _)
ApplyInc(prods, items, i) ==
    IF i > Len(items) THEN prods
    ELSE ApplyInc(
            IF items[i].product \in DOMAIN prods
            THEN [prods EXCEPT ![items[i].product].sold = @ + items[i].quantity]
            ELSE prods,
            items, i + 1)

\* 4) The $inc updates { quantity: -n, sold: +n }, line by line; an update
\* of a path the product document does not have is dropped.
RECURSIVE ApplyCardInc(_, _, _)
ApplyCardInc(prods, items, i) ==
    IF i > Len(items) THEN prods
    ELSE ApplyCardInc(
            IF items[i].product \in DOMAIN prods
            THEN [prods EXCEPT ![items[i].product] =
                    [k \in DOMAIN @ |->
                        IF k = "sold" THEN @[k] + items[i].quantity
                        ELSE IF k = "quantity" THEN @[k] - items[i].quantity
                        ELSE @[k]]]
            ELSE prods,
            items, i + 1)

\* 5) Update product sold count (and, in the earlier revision, quantity),
\* then the order count of each product.
bulkWrite(p) ==
    /\ po[p].pc = "bulk"
    /\ products' = IF po[p].earlier
                   THEN ApplyCardInc(products, po[p].data.cartItems, 1)
                   ELSE ApplyInc(products, po[p].data.cartItems, 1)
    /\ po' = [po EXCEPT ![p] = [@ EXCEPT !.pc = "email"]]
    /\ UNCHANGED <<orders, createdFrom, carts, now, wh, cp, tr>>

\* Product.bulkWrite rejects (the store fails) after the updates of the first
\* k lines: asyncHandler hands the rejection to next, and the caller gets
\* the error.
SubSeqTo(items, k) == [i \in 1 .. k |-> items[i]]

bulkWriteRejects(p, k) ==
    /\ po[p].pc = "bulk"
    /\ k \in 0 .. Len(po[p].data.cartItems) - 1
    /\ products' = IF po[p].earlier
                   THEN ApplyCardInc(products, SubSeqTo(po[p].data.cartItems, k), 1)
                   ELSE ApplyInc(products, SubSeqTo(po[p].data.cartItems, k), 1)
    /\ po' = [po EXCEPT ![p] = Done(po[p].order, Failure(500, "BulkWriteFailed"))]
    /\ UNCHANGED <<orders, createdFrom, carts, now, wh, cp, tr>>

\* utils/sendEmail: what the awaited call does when the message is delivered
\* or not.  A failure is logged by the sender and not propagated.
sendEmailRejects(delivered) == IF delivered THEN "resolved" ELSE "rejected"

sendEmail(delivered) == "resolved"

\* 6) Send confirmation emails: the customer's and the admin's, awaited.
sendEmails(p, delivered) ==
    /\ po[p].pc = "email"
    /\ po' = [po EXCEPT ![p] =
                IF sendEmail(delivered) = "rejected"
                THEN [Done(po[p].order, Failure(500, "EmailFailed")) EXCEPT
                         !.notified = "failed"]
                ELSE [@ EXCEPT !.pc = "respond",
                               !.notified = IF delivered THEN "sent" ELSE "failed"]]
    /\ UNCHANGED <<orders, createdFrom, products, carts, now, wh, cp, tr>>

\* 7) Send response.
respond(p) ==
    /\ po[p].pc = "respond"
    /\ po' = [po EXCEPT ![p] =
                [Done(po[p].order, [status |-> 201, error |-> ""]) EXCEPT
                    !.notified = po[p].notified, !.seen = po[p].seen]]
    /\ UNCHANGED <<orders, createdFrom, products, carts, now, wh, cp, tr>>

---------------------------------------------------------------------------
\* The order service: reads.  A read's answer is the _id found (0: 404) or
\* the set of _ids listed.

\* findSpecificOrder: includeDeleted is computed from the caller's role and
\* the query string, and handed to the query as an OPTION.
findSpecificOrder(id, role, includeDeletedParam) ==
    LET includeDeleted == role = "admin" /\ includeDeletedParam = "true"
    IN OrderFindOne([_id |-> id], [includeDeleted |-> includeDeleted])

\* findDeletedOrders: find({deleted: true}) with the includeDeleted option,
\* then the orders whose deleted is true.
findDeletedOrders ==
    LET found == OrderFind([deleted |-> "true"], [includeDeleted |-> TRUE])
    IN {i \in found : orders[i].deleted = TRUE}

getOrderAnyRole(role, userId) == OrderFind([x \in {} |-> 0], NoOptions)

\* getOrder: every order for an admin, the caller's own orders otherwise.
getOrder(role, userId) ==
    IF role = "admin"
    THEN OrderFind([x \in {} |-> 0], NoOptions)
    ELSE OrderFind([user |-> userId], NoOptions)

\* findAllOrders, the handler of GET /api/v1/orders: factory.getAll(Order).
\* The factory is not part of the sources; the listing is the one the
\* interface describes: an admin sees all orders, others only their own.
findAllOrders(role, userId) ==
    IF role = "admin"
    THEN OrderFind([x \in {} |-> 0], NoOptions)
    ELSE OrderFind([user |-> userId], NoOptions)

\* One line of an order as a read returns it: populate replaces the product
\* reference by the product's title as it is now (or null); price and name
\* are the line's own.
PopulatedLineLive(line) ==
    [product |-> IF ProductExists(line.product)
                 THEN [title |-> products[line.product].title]
                 ELSE NoData,
     quantity |-> line.quantity,
     price |-> IF ProductExists(line.product)
               THEN products[line.product].price ELSE line.price,
     name |-> IF ProductExists(line.product)
              THEN products[line.product].title ELSE line.name]

PopulatedLine(line) ==
    [product |-> IF ProductExists(line.product)
                 THEN [title |-> products[line.product].title]
                 ELSE NoData,
     quantity |-> line.quantity,
     price |-> line.price,
     name |-> line.name]

\* The cartItems of the order a read found.
PopulatedItems(i) ==
    [n \in 1 .. Len(orders[i].cartItems) |-> PopulatedLine(orders[i].cartItems[n])]

\* Order.findById(req.params.id) of the three transitions.
findByIdUnhooked(id) == IF id \in OrderIdxs THEN id ELSE 0

findById(id) == OrderFindOne([_id |-> id], NoOptions)

---------------------------------------------------------------------------
\* The order service: transitions.  Each handler loads the order with
\* findById, assigns two fields of the document in memory and saves it.

TransProcs == {"t1", "t2", "t3"}

\* doc: the document in memory, as loaded.
IdleTr == [pc |-> "idle", op |-> "", id |-> 0, doc |-> NoData, result |-> NoResult]

TrDone(op, id, result) ==
    [IdleTr EXCEPT !.pc = "done", !.op = op, !.id = id, !.result = result]

\* The handler up to save(): 404 when findById finds nothing.
Loaded(op, id) ==
    IF findById(id) = 0
    THEN TrDone(op, id, Failure(404, "OrderNotFound"))
    ELSE [IdleTr EXCEPT !.pc = "save", !.op = op, !.id = id, !.doc = orders[id]]

updateOrderToPaid(t, id) ==
    /\ tr[t].pc = "idle"
    /\ tr' = [tr EXCEPT ![t] = Loaded("paid", id)]
    /\ UNCHANGED <<orders, createdFrom, products, carts, now, po, wh, cp>>

updateOrderToDelivered(t, id) ==
    /\ tr[t].pc = "idle"
    /\ tr' = [tr EXCEPT ![t] = Loaded("delivered", id)]
    /\ UNCHANGED <<orders, createdFrom, products, carts, now, po, wh, cp>>

softDeleteOrder(t, id) ==
    /\ tr[t].pc = "idle"
    /\ tr' = [tr EXCEPT ![t] = Loaded("deleted", id)]
    /\ UNCHANGED <<orders, createdFrom, products, carts, now, po, wh, cp>>

AssignedFlagOnly(doc, op) ==
    IF op = "paid" THEN [doc EXCEPT !.isPaid = TRUE]
    ELSE IF op = "delivered" THEN [doc EXCEPT !.isDelivered = TRUE]
    ELSE [doc EXCEPT !.deleted = TRUE]

\* The two fields a handler assigns, set on a document.
Assigned(doc, op) ==
    IF op = "paid" THEN [doc EXCEPT !.isPaid = TRUE, !.paidAt = now]
    ELSE IF op = "delivered"
        THEN [doc EXCEPT !.isDelivered = TRUE, !.deliveredAt = now]
    ELSE [doc EXCEPT !.deleted = TRUE, !.deletedAt = now]

\* order.save(): the stored document after the save.  Only the paths that
\* were assigned are written; the rest of the stored document stays.
SavedWhole(stored, loaded, op) == Assigned(loaded, op)

Saved(stored, loaded, op) == Assigned(stored, op)

orderSave(t) ==
    /\ tr[t].pc = "save"
    /\ orders' = [orders EXCEPT ![tr[t].id] = Saved(@, tr[t].doc, tr[t].op)]
    /\ tr' = [tr EXCEPT ![t] =
                TrDone(tr[t].op, tr[t].id, [status |-> 200, error |-> ""])]
    /\ UNCHANGED <<createdFrom, products, carts, now, po, wh, cp>>

---------------------------------------------------------------------------
\* The product service: updateProduct sets the fields given; an unknown id
\* is answered 404.
updateProduct(productId, updateData) ==
    /\ ProductExists(productId)
    /\ products' = [products EXCEPT ![productId] =
                      [k \in DOMAIN @ |-> Get(updateData, k, @[k])]]
    /\ UNCHANGED <<orders, createdFrom, carts, now, po, wh, cp, tr>>

---------------------------------------------------------------------------
\* cartModel.js and the cart service.  A cart document that has been deleted
\* stays in the sequence, marked gone, so that _ids are never reused.

\* The carts created are capped at MaxCarts.
MaxCarts == 2
\* Quantities asked for run up to MaxQty.
MaxQty == 2

CartProcs == {"c1", "c2"}
CartIdxs == 1 .. Len(carts)

\* The caller of each cart request: both are the same authenticated user.
CartUser(c) == "u1"

\* wItem, wTotal and wAfter say which paths of the document in memory were
\* changed, and so which paths save() writes.
IdleCp ==
    [pc |-> "idle", op |-> "", cart |-> 0, index |-> 0, item |-> NoData,
     quantity |-> 0, total |-> Undefined, after |-> Undefined,
     wItem |-> "none", wTotal |-> FALSE, wAfter |-> FALSE,
     result |-> NoResult]

\* A cart request that has been answered.
CartDone(result) == [IdleCp EXCEPT !.pc = "done", !.result = result]

\* What is left of a cart document once it is deleted.
Gone(cart) ==
    [user |-> cart.user, cartItems |-> <<>>, totalCartPrice |-> Undefined,
     totalPriceAfterDiscount |-> Undefined, gone |-> TRUE]

\* Cart.findOne({ user }): the first cart of the user, or 0.
CartFindOne(user) ==
    LET found == {i \in CartIdxs : ~carts[i].gone /\ carts[i].user = user}
    IN IF found = {} THEN 0 ELSE CHOOSE i \in found : \A j \in found : i <= j

\* calcTotalCartPrice: the sum over the items; the caller's cart also gets
\* totalPriceAfterDiscount = undefined.
calcTotalCartPrice(cartItems) ==
    SumSeq([i \in 1 .. Len(cartItems) |-> cartItems[i].quantity * cartItems[i].price])

\* cartItems.findIndex(...): the first of the indices found that satisfy the
\* test, or 0.
FindIndexNever(found) == 0

FindIndex(found) ==
    IF found = {} THEN 0 ELSE CHOOSE i \in found : \A j \in found : i <= j

\* A fresh _id for a cart item.
FreshItemId(cartItems) ==
    CHOOSE n \in 1 .. Len(cartItems) + 1 :
        \A i \in 1 .. Len(cartItems) : cartItems[i]["_id"] # n

\* The request's state once the cart in memory has been changed to items
\* and calcTotalCartPrice has run: what save() will write.
Changed(op, cart, index, item, quantity, wItem, items) ==
    [IdleCp EXCEPT !.pc = "save", !.op = op, !.cart = cart, !.index = index,
                   !.item = item, !.quantity = quantity, !.wItem = wItem,
                   !.total = calcTotalCartPrice(items),
                   !.wTotal = calcTotalCartPrice(items) # carts[cart].totalCartPrice,
                   !.wAfter = carts[cart].totalPriceAfterDiscount # Undefined]

\* addProductToCart up to Cart.findOne: the product lookup, the two checks
\* and the cart lookup.  Quantities are integers here, so the integer check
\* is the check quantity < 1.
addProductToCart(c, productId, color, quantity) ==
    /\ cp[c].pc \in {"idle", "done"}
    /\ CartFindOne(CartUser(c)) = 0 =>
          Len(carts) + Cardinality({d \in CartProcs : cp[d].pc = "create"}) < MaxCarts
    /\ cp' = [cp EXCEPT ![c] =
         IF ~ProductExists(productId) THEN CartDone(Failure(404, "ProductNotFound"))
         ELSE IF StockInsufficient(productId, quantity)
            THEN CartDone(Failure(400, "InsufficientStock"))
         ELSE IF quantity < 1 THEN CartDone(Failure(400, "InvalidQuantity"))
         ELSE LET cart == CartFindOne(CartUser(c))
                  item == [product |-> productId, color |-> color,
                           price |-> products[productId].price,
                           quantity |-> quantity]
              IN IF cart = 0
                 THEN [IdleCp EXCEPT !.pc = "create", !.op = "add", !.item = item]
                 ELSE LET items == carts[cart].cartItems
                          productIndex ==
                              FindIndex({i \in 1 .. Len(items) :
                                            /\ items[i].product = productId
                                            /\ items[i].color = color})
                      IN IF productIndex > 0
                         THEN Changed("add", cart, productIndex, NoData, quantity,
                                IF items[productIndex].quantity # quantity
                                THEN "set" ELSE "none",
                                [items EXCEPT ![productIndex].quantity = quantity])
                         ELSE Changed("add", cart, 0, item, 0, "push",
                                Append(items, item))]
    /\ UNCHANGED <<orders, createdFrom, products, carts, now, po, wh, tr>>

\* One item as stored in a cart, with its _id.
StoredItem(item, id) ==
    [k \in DOMAIN item \cup {"_id"} |-> IF k = "_id" THEN id ELSE item[k]]

\* Cart.create({ user, cartItems: [item] }): the cart is stored without
\* totals; calcTotalCartPrice then runs on the document in memory.
cartCreate(c) ==
    /\ cp[c].pc = "create"
    /\ LET items == <<StoredItem(cp[c].item, 1)>>
       IN /\ carts' = Append(carts,
                        [user |-> CartUser(c), cartItems |-> items,
                         totalCartPrice |-> Undefined,
                         totalPriceAfterDiscount |-> Undefined, gone |-> FALSE])
          /\ cp' = [cp EXCEPT ![c] =
                      [IdleCp EXCEPT !.pc = "save", !.op = "add",
                                     !.cart = Len(carts) + 1,
                                     !.total = calcTotalCartPrice(items),
                                     !.wTotal = TRUE]]
    /\ UNCHANGED <<orders, createdFrom, products, now, po, wh, tr>>

\* removeSpecificCartItem up to save(): findOneAndUpdate pulls the item from
\* the stored cart; calcTotalCartPrice then runs on the document returned.
removeSpecificCartItem(c, itemId) ==
    /\ cp[c].pc \in {"idle", "done"}
    /\ LET cart == CartFindOne(CartUser(c))
       IN IF cart = 0
          THEN /\ cp' = [cp EXCEPT ![c] = CartDone(Failure(404, "CartNotFound"))]
               /\ UNCHANGED carts
          ELSE LET items == SelectSeq(carts[cart].cartItems,
                                      LAMBDA it : it["_id"] # itemId)
               IN /\ carts' = [carts EXCEPT ![cart].cartItems = items]
                  /\ cp' = [cp EXCEPT ![c] =
                              Changed("remove", cart, 0, NoData, 0, "none", items)]
    /\ UNCHANGED <<orders, createdFrom, products, now, po, wh, tr>>

\* clearCart: findOneAndDelete.
clearCart(c) ==
    /\ cp[c].pc \in {"idle", "done"}
    /\ LET cart == CartFindOne(CartUser(c))
       IN IF cart = 0
          THEN /\ cp' = [cp EXCEPT ![c] = CartDone(Failure(404, "CartNotFound"))]
               /\ UNCHANGED carts
          ELSE /\ carts' = [carts EXCEPT ![cart] = Gone(@)]
               /\ cp' = [cp EXCEPT ![c] = CartDone([status |-> 204, error |-> ""])]
    /\ UNCHANGED <<orders, createdFrom, products, now, po, wh, tr>>

\* updateCartItemQuantity up to save(): the quantity check, the cart and
\* item lookups and the stock check.
updateCartItemQuantity(c, itemId, quantity) ==
    /\ cp[c].pc \in {"idle", "done"}
    /\ cp' = [cp EXCEPT ![c] =
         IF quantity < 1 THEN CartDone(Failure(400, "InvalidQuantity"))
         ELSE LET cart == CartFindOne(CartUser(c))
              IN IF cart = 0 THEN CartDone(Failure(404, "CartNotFound"))
                 ELSE LET items == carts[cart].cartItems
                          itemIndex ==
                              FindIndex({i \in 1 .. Len(items) :
                                            items[i]["_id"] = itemId})
                      IN IF itemIndex = 0 THEN CartDone(Failure(404, "ItemNotFound"))
                         ELSE IF StockInsufficient(items[itemIndex].product, quantity)
                            THEN CartDone(Failure(400, "InsufficientStock"))
                         ELSE Changed("update", cart, itemIndex, NoData, quantity,
                                IF items[itemIndex].quantity # quantity
                                THEN "set" ELSE "none",
                                [items EXCEPT ![itemIndex].quantity = quantity])]
    /\ UNCHANGED <<orders, createdFrom, products, carts, now, po, wh, tr>>

\* Coupon.findOne({ name, expire: { $gt: Date.now() } }).
CouponFindAnyExpiry(name) == CouponExists(name)

CouponFindUnexpired(name) ==
    /\ CouponExists(name)
    /\ Coupons[name].expireKind = "date"
    /\ Coupons[name].expire > now

\* Number.prototype.toFixed(2), then the cast back to Number: x rounded to
\* whole cents.  Half a cent goes up or down with the binary value of x.
ToFixed2(x) ==
    LET m == x % 100
    IN IF m = 0 THEN {x}
       ELSE IF m < 50 THEN {x - m}
       ELSE IF m > 50 THEN {x - m + 100}
       ELSE {x - m, x - m + 100}

\* totalPrice - (totalPrice * coupon.discount) / 100, before toFixed.
CouponPrice(totalPrice, discount) == totalPrice - (totalPrice * discount) \div 100

\* applyCoupon up to save(): the coupon and cart lookups and the new total.
\* A cart without totalCartPrice gives NaN, which save() refuses.
applyCoupon(c, name) ==
    /\ cp[c].pc \in {"idle", "done"}
    /\ IF ~CouponFindUnexpired(name)
       THEN cp' = [cp EXCEPT ![c] =
                CartDone(Failure(400, IF CouponExists(name) THEN "ExpiredCoupon"
                                                            ELSE "InvalidCoupon"))]
       ELSE LET cart == CartFindOne(CartUser(c))
            IN IF cart = 0
               THEN cp' = [cp EXCEPT ![c] = CartDone(Failure(404, "CartNotFound"))]
               ELSE IF carts[cart].totalCartPrice = Undefined
               THEN cp' = [cp EXCEPT ![c] = CartDone(Failure(500, "SaveFailed"))]
               ELSE \E after \in ToFixed2(CouponPrice(carts[cart].totalCartPrice,
                                                      Coupons[name].discount)) :
                      cp' = [cp EXCEPT ![c] =
                               [IdleCp EXCEPT !.pc = "save", !.op = "coupon",
                                   !.cart = cart,
                                   !.total = carts[cart].totalCartPrice,
                                   !.quantity = Coupons[name].discount,
                                   !.after = after,
                                   !.wAfter =
                                      after # carts[cart].totalPriceAfterDiscount]]
    /\ UNCHANGED <<orders, createdFrom, products, carts, now, po, wh, tr>>

\* cart.save(): the paths changed in memory are written to the stored
\* document, whatever else has been written to it meanwhile.  An item pushed
\* is appended; a quantity set at an index is set at that index.  Saving a
\* document that is gone, or an index the stored array no longer has, fails
\* and writes nothing.
SaveItems(stored, c) ==
    IF cp[c].wItem = "push"
        THEN Append(stored, StoredItem(cp[c].item, FreshItemId(stored)))
    ELSE IF cp[c].wItem = "set"
        THEN [stored EXCEPT ![cp[c].index].quantity = cp[c].quantity]
    ELSE stored

cartSave(c) ==
    /\ cp[c].pc = "save"
    /\ LET k == cp[c].cart
           lost == \/ carts[k].gone
                   \/ /\ cp[c].wItem = "set"
                      /\ cp[c].index > Len(carts[k].cartItems)
       IN IF lost
          THEN /\ cp' = [cp EXCEPT ![c] = CartDone(Failure(500, "SaveFailed"))]
               /\ UNCHANGED carts
          ELSE /\ carts' = [carts EXCEPT ![k] =
                    [@ EXCEPT !.cartItems = SaveItems(@, c),
                              !.totalCartPrice =
                                 IF cp[c].wTotal THEN cp[c].total ELSE @,
                              !.totalPriceAfterDiscount =
                                 IF cp[c].wAfter THEN cp[c].after ELSE @]]
               /\ cp' = [cp EXCEPT ![c] = CartDone([status |-> 200, error |-> ""])]
    /\ UNCHANGED <<orders, createdFrom, products, now, po, wh, tr>>

---------------------------------------------------------------------------
\* The order service: webhookCheckout and createCardOrder.

WebhookProcs == {"h1", "h2"}

\* createCardOrder up to Order.create: the cart of the session's
\* client_reference_id, and the argument of Order.create.  The user found by
\* the session's customer_email is the owner of the cart.
createCardOrder(h, cartId) ==
    /\ wh[h].pc = "idle"
    /\ wh' = [wh EXCEPT ![h] =
         IF cartId \notin CartIdxs \/ carts[cartId].gone
         THEN WhDone(Failure(500, "CartNotFound"))
         ELSE [IdleWh EXCEPT !.pc = "gen", !.cart = cartId, !.data =
                 [user |-> carts[cartId].user,
                  cartItems |-> carts[cartId].cartItems,
                  totalOrderPrice |->
                     IF carts[cartId].totalPriceAfterDiscount # Undefined
                     THEN carts[cartId].totalPriceAfterDiscount
                     ELSE carts[cartId].totalCartPrice,
                  isPaid |-> TRUE,
                  paidAt |-> now,
                  paymentMethod |-> "card"]]]
    /\ UNCHANGED <<orders, createdFrom, products, carts, now, po, cp, tr>>

cardPreValidate(h) ==
    /\ wh[h].pc = "gen"
    /\ ~wh[h].isUnique /\ wh[h].retries < maxRetries
    /\ \E id \in OrderIds :
         wh' = [wh EXCEPT ![h] =
                  IF GenTurn(wh[h], id).pc = "exhausted"
                  THEN WhDone(Failure(500, "IdGenerationExhausted"))
                  ELSE GenTurn(wh[h], id)]
    /\ UNCHANGED <<orders, createdFrom, products, carts, now, po, cp, tr>>

cardInsert(h) ==
    /\ wh[h].pc = "insert"
    /\ IF DuplicateKey(wh[h].id)
       THEN /\ wh' = [wh EXCEPT ![h] = WhDone(Failure(500, "DuplicateKey"))]
            /\ UNCHANGED <<orders, createdFrom>>
       ELSE /\ orders' = Append(orders, CreatedDoc(wh[h]))
            /\ createdFrom' = Append(createdFrom, wh[h].cart)
            /\ wh' = [wh EXCEPT ![h] =
                        [IdleWh EXCEPT !.pc = "bulk", !.order = Len(orders) + 1,
                                       !.data = wh[h].data,
                                       !.cart = wh[h].cart]]
    /\ UNCHANGED <<products, carts, now, po, cp, tr>>

cardBulkWrite(h) ==
    /\ wh[h].pc = "bulk"
    /\ products' = ApplyCardInc(products, wh[h].data.cartItems, 1)
    /\ wh' = [wh EXCEPT ![h] = [@ EXCEPT !.pc = "clear"]]
    /\ UNCHANGED <<orders, createdFrom, carts, now, po, cp, tr>>

\* 5) Cart.findByIdAndDelete(cartId), and the webhook's answer.
cardClearCart(h) ==
    /\ wh[h].pc = "clear"
    /\ carts' = [carts EXCEPT ![wh[h].cart] = Gone(@)]
    /\ wh' = [wh EXCEPT ![h] =
                [WhDone([status |-> 200, error |-> ""]) EXCEPT
                    !.order = wh[h].order, !.cart = wh[h].cart]]
    /\ UNCHANGED <<orders, createdFrom, products, now, po, cp, tr>>

---------------------------------------------------------------------------
\* The requests createCashOrder is given.

GoodAddress ==
    [isObject |-> TRUE, alias |-> TRUE, details |-> TRUE, phone |-> TRUE,
     city |-> TRUE, name |-> TRUE]

Line(id, quantity) == [id |-> id, quantity |-> quantity]

Request(kind, items, address, coupon, user) ==
    [products |-> [kind |-> kind, items |-> items],
     shippingAddress |-> address, coupon |-> coupon, user |-> user]

\* Well-formed requests, and one request for each way of being refused.
GoodRequests ==
    {Request("array", <<Line("p1", 2)>>, GoodAddress, "", "none"),
     Request("array", <<Line("p1", 1), Line("p2", 1)>>, GoodAddress, "SAVE20", "u1")}

BadRequests ==
    {Request("undefined", <<>>, GoodAddress, "", "none"),
     Request("object", <<>>, GoodAddress, "", "u1"),
     Request("array", <<>>, GoodAddress, "SAVE20", "none"),
     Request("array", <<Line("p1", 1)>>, [GoodAddress EXCEPT !.isObject = FALSE], "", "none"),
     Request("array", <<Line("p1", 1)>>, [GoodAddress EXCEPT !.alias = FALSE], "", "none"),
     Request("array", <<Line("", 1)>>, GoodAddress, "", "none"),
     Request("array", <<Line("p1", 0)>>, GoodAddress, "", "none"),
     Request("array", <<Line("p1", 1), Line("p9", 1)>>, GoodAddress, "", "none"),
     Request("array", <<Line("p1", 1)>>, GoodAddress, "NOPE", "none"),
     Request("array", <<Line("p1", 1)>>, GoodAddress, "OLD", "none"),
     Request("array", <<Line("p1", 1)>>, GoodAddress, "OVER", "none"),
     Request("array", <<Line("p1", 1)>>, GoodAddress, "NEG", "none"),
     Request("array", <<Line("p1", 1)>>, GoodAddress, "NOEXP", "none"),
     Request("array", <<Line("p1", 1)>>, GoodAddress, "BADEXP", "none")}

Requests == GoodRequests \cup BadRequests

---------------------------------------------------------------------------
\* The order workflow: two createCashOrder requests and a soft deletion.

Init ==
    /\ orders = <<>>
    /\ createdFrom = <<>>
    /\ products = InitProducts
    /\ carts = <<>>
    /\ now \in 0 .. MaxTime
    /\ po = [p \in OrderProcs |-> IdlePo]
    /\ wh = [h \in WebhookProcs |-> IdleWh]
    /\ cp = [c \in CartProcs |-> IdleCp]
    /\ tr = [t \in TransProcs |-> IdleTr]

Next ==
    \/ \E p \in OrderProcs : \E req \in Requests : createCashOrder(p, req)
    \/ \E p \in OrderProcs : preValidate(p)
    \/ \E p \in OrderProcs : orderInsert(p)
    \/ \E p \in OrderProcs : bulkWrite(p)
    \/ \E p \in OrderProcs : sendEmails(p, TRUE)
    \/ \E p \in OrderProcs : respond(p)
    \/ \E id \in OrderIdxs : softDeleteOrder("t1", id)
    \/ orderSave("t1")

Spec == Init /\ [][Next]_vars


---------------------------------------------------------------------------
\* The cart service.

Colors == {"red"}
CartCouponNames == {"SAVE20", "P15", "HALF", "OLD", "SOON", "NOPE"}

\* Two concurrent requests of one user, each made once, on no cart or on a
\* cart that earlier requests have left.
CartItem(id, productId, quantity) ==
    [_id |-> id, product |-> productId, color |-> "red",
     price |-> InitProducts[productId].price, quantity |-> quantity]

PlainCart ==
    [user |-> "u1", cartItems |-> <<CartItem(1, "p1", 1)>>,
     totalCartPrice |-> Cents(1000),
     totalPriceAfterDiscount |-> Undefined, gone |-> FALSE]

DiscountedCart ==
    [user |-> "u1",
     cartItems |-> <<CartItem(1, "p1", 1), CartItem(2, "p2", 1)>>,
     totalCartPrice |-> Cents(1999),
     totalPriceAfterDiscount |-> Cents(1599), gone |-> FALSE]

InitCart ==
    /\ orders = <<>>
    /\ createdFrom = <<>>
    /\ products \in {InitProducts, StockProducts}
    /\ carts \in {<<>>, <<PlainCart>>, <<DiscountedCart>>}
    /\ now \in 0 .. MaxTime
    /\ po = [p \in OrderProcs |-> IdlePo]
    /\ wh = [h \in WebhookProcs |-> IdleWh]
    /\ cp = [c \in CartProcs |-> IdleCp]
    /\ tr = [t \in TransProcs |-> IdleTr]

NextCart ==
    \/ \E c \in CartProcs, productId \in ProductIds \cup {"p9"},
          color \in Colors, quantity \in 0 .. MaxQty :
            cp[c].pc = "idle" /\ addProductToCart(c, productId, color, quantity)
    \/ \E c \in CartProcs : cartCreate(c)
    \/ \E c \in CartProcs, itemId \in 1 .. MaxQty + 1 :
            cp[c].pc = "idle" /\ removeSpecificCartItem(c, itemId)
    \/ \E c \in CartProcs, itemId \in 1 .. MaxQty + 1, quantity \in 0 .. MaxQty :
            cp[c].pc = "idle" /\ updateCartItemQuantity(c, itemId, quantity)
    \/ \E c \in CartProcs, name \in {"SAVE20", "P15", "OLD", "SOON", "NOPE"} :
            cp[c].pc = "idle" /\ applyCoupon(c, name)
    \/ \E c \in CartProcs : cp[c].pc = "idle" /\ clearCart(c)
    \/ \E c \in CartProcs : cartSave(c)

SpecCart == InitCart /\ [][NextCart]_vars

\* One caller adding products to its cart, one request after the other, in
\* two variants.
AddColors == {"red", "blue"}

NextAddItem ==
    \/ \E productId \in ProductIds, color \in AddColors, quantity \in 0 .. MaxQty :
            addProductToCart("c1", productId, color, quantity)
    \/ cartCreate("c1")
    \/ cartSave("c1")

SpecAddItem == Init /\ [][NextAddItem]_vars

---------------------------------------------------------------------------
\* The card webhook: two deliveries, over carts the cart service has left.

CardCarts ==
    <<[PlainCart EXCEPT !.cartItems = <<CartItem(1, "p1", 2)>>,
                        !.totalCartPrice = Cents(2000)],
      [DiscountedCart EXCEPT !.user = "u2"]>>

InitCard ==
    /\ orders = <<>>
    /\ createdFrom = <<>>
    /\ products = InitProducts
    /\ carts = CardCarts
    /\ now \in 0 .. MaxTime
    /\ po = [p \in OrderProcs |-> IdlePo]
    /\ wh = [h \in WebhookProcs |-> IdleWh]
    /\ cp = [c \in CartProcs |-> IdleCp]
    /\ tr = [t \in TransProcs |-> IdleTr]

NextCard ==
    \/ \E h \in WebhookProcs : \E cartId \in 1 .. Len(carts) + 1 :
          createCardOrder(h, cartId)
    \/ \E h \in WebhookProcs : cardPreValidate(h)
    \/ \E h \in WebhookProcs : cardInsert(h)
    \/ \E h \in WebhookProcs : cardBulkWrite(h)
    \/ \E h \in WebhookProcs : cardClearCart(h)

SpecCard == InitCard /\ [][NextCard]_vars

---------------------------------------------------------------------------
\* Pricing: one createCashOrder request over every list of one or two lines
\* and every coupon, or else the cart requests of one caller over every
\* product and coupon.

PricingLines ==
    {Line(id, quantity) : id \in ProductIds, quantity \in 1 .. MaxQty}

PricingRequests ==
    {Request("array", items, GoodAddress, coupon, "none") :
        items \in {<<l>> : l \in PricingLines}
                  \cup {<<l, m>> : l \in PricingLines, m \in PricingLines},
        coupon \in {"", "SAVE20", "P15", "HALF", "FULL", "SOON", "OVER", "NEG"}}

OrderSide == carts = <<>> /\ \A c \in CartProcs : cp[c].pc = "idle"

CartSide == po["a"].pc = "idle"

NextPricing ==
    \/ \E req \in PricingRequests : OrderSide /\ createCashOrder("a", req)
    \/ \E req \in PricingRequests : OrderSide /\ createCashOrderEarlier("a", req)
    \/ OrderSide /\ preValidate("a")
    \/ OrderSide /\ orderInsert("a")
    \/ OrderSide /\ bulkWrite("a")
    \/ OrderSide /\ sendEmails("a", TRUE)
    \/ OrderSide /\ respond("a")
    \/ \E productId \in ProductIds, color \in Colors, quantity \in 0 .. MaxQty :
            CartSide /\ addProductToCart("c1", productId, color, quantity)
    \/ CartSide /\ cartCreate("c1")
    \/ \E itemId \in 1 .. MaxQty + 1 :
            CartSide /\ removeSpecificCartItem("c1", itemId)
    \/ \E itemId \in 1 .. MaxQty + 1, quantity \in 0 .. MaxQty :
            CartSide /\ updateCartItemQuantity("c1", itemId, quantity)
    \/ \E name \in CartCouponNames : CartSide /\ applyCoupon("c1", name)
    \/ CartSide /\ clearCart("c1")
    \/ CartSide /\ cartSave("c1")

SpecPricing == Init /\ [][NextPricing]_vars

---------------------------------------------------------------------------
\* Fulfilment: two createCashOrder requests with a store that may fail in
\* bulkWrite and a sender that may fail to deliver.

FulfilRequests ==
    GoodRequests \cup
    {Request("array", <<>>, GoodAddress, "", "none"),
     Request("array", <<Line("p1", 1)>>, GoodAddress, "OLD", "none")}

NextFulfil ==
    \/ \E p \in OrderProcs, req \in FulfilRequests : createCashOrder(p, req)
    \/ \E p \in OrderProcs : preValidate(p)
    \/ \E p \in OrderProcs : orderInsert(p)
    \/ \E p \in OrderProcs : bulkWrite(p)
    \/ \E p \in OrderProcs, k \in 0 .. 1 : bulkWriteRejects(p, k)
    \/ \E p \in OrderProcs, delivered \in BOOLEAN : sendEmails(p, delivered)
    \/ \E p \in OrderProcs : respond(p)

SpecFulfil == Init /\ [][NextFulfil]_vars

---------------------------------------------------------------------------
\* Stock: two createCashOrder requests of the earlier revision and one
\* webhook delivery, over a catalog without or with available quantities.

StockRequests ==
    {Request("array", <<Line("p1", 1)>>, GoodAddress, "", "none"),
     Request("array", <<Line("p1", 1), Line("p1", 1)>>, GoodAddress, "", "none"),
     Request("array", <<Line("p2", MaxQty)>>, GoodAddress, "", "none")}

InitStock ==
    /\ orders = <<>>
    /\ createdFrom = <<>>
    /\ products \in {InitProducts, StockProducts}
    /\ carts = CardCarts
    /\ now = 0
    /\ po = [p \in OrderProcs |-> IdlePo]
    /\ wh = [h \in WebhookProcs |-> IdleWh]
    /\ cp = [c \in CartProcs |-> IdleCp]
    /\ tr = [t \in TransProcs |-> IdleTr]

NextStock ==
    \/ \E p \in OrderProcs, req \in StockRequests : createCashOrderEarlier(p, req)
    \/ \E p \in OrderProcs : preValidate(p)
    \/ \E p \in OrderProcs : orderInsert(p)
    \/ \E p \in OrderProcs : bulkWrite(p)
    \/ \E p \in OrderProcs : sendEmails(p, TRUE)
    \/ \E p \in OrderProcs : respond(p)
    \/ \E cartId \in CartIdxs : createCardOrder("h1", cartId)
    \/ cardPreValidate("h1")
    \/ cardInsert("h1")
    \/ cardBulkWrite("h1")
    \/ cardClearCart("h1")

SpecStock == InitStock /\ [][NextStock]_vars

\* The stock checks of the two order services: requests for more than is
\* available, for an unknown product and for what is available.
StockCheckRequests ==
    StockRequests
    \cup {Request("array", <<Line("p1", 1), Line("p9", 1)>>, GoodAddress, "", "none"),
          Request("array", <<Line("p1", 1), Line("p2", MaxQty)>>, GoodAddress, "", "u1")}

NextStockCheck ==
    \/ \E p \in OrderProcs, req \in StockCheckRequests : createCashOrder(p, req)
    \/ \E p \in OrderProcs, req \in StockCheckRequests : createCashOrderEarlier(p, req)
    \/ \E p \in OrderProcs : preValidate(p)
    \/ \E p \in OrderProcs : orderInsert(p)
    \/ \E p \in OrderProcs : bulkWrite(p)
    \/ \E p \in OrderProcs : sendEmails(p, TRUE)
    \/ \E p \in OrderProcs : respond(p)

SpecStockCheck == InitStock /\ [][NextStockCheck]_vars

\* The sold counters: one createCashOrder request of either revision, one
\* webhook delivery, a bulkWrite that may fail, and updateProduct with a
\* body that carries sold.
SoldUpdates == {[sold |-> 0]}

NextSold ==
    \/ \E req \in StockRequests : createCashOrder("a", req)
    \/ \E req \in StockRequests : createCashOrderEarlier("a", req)
    \/ preValidate("a")
    \/ orderInsert("a")
    \/ bulkWrite("a")
    \/ \E k \in 0 .. 1 : bulkWriteRejects("a", k)
    \/ sendEmails("a", TRUE)
    \/ respond("a")
    \/ \E cartId \in CartIdxs : createCardOrder("h1", cartId)
    \/ cardPreValidate("h1")
    \/ cardInsert("h1")
    \/ cardBulkWrite("h1")
    \/ cardClearCart("h1")
    \/ \E productId \in ProductIds, updateData \in SoldUpdates :
            updateProduct(productId, updateData)

SpecSold == InitStock /\ [][NextSold]_vars

---------------------------------------------------------------------------
\* Snapshots: one createCashOrder request while products are repriced and
\* renamed.

NewPrices == {Cents(1000), Cents(1250)}
NewTitles == {"cake", "pie"}

NextSnapshot ==
    \/ \E req \in GoodRequests : createCashOrder("a", req)
    \/ preValidate("a")
    \/ orderInsert("a")
    \/ bulkWrite("a")
    \/ sendEmails("a", TRUE)
    \/ respond("a")
    \/ \E productId \in ProductIds, price \in NewPrices, title \in NewTitles :
            updateProduct(productId, [price |-> price, title |-> title])

SpecSnapshot == Init /\ [][NextSnapshot]_vars

\* The transitions on stored orders: three requests, each of them any of the
\* three transitions on an order that exists or on an id that does not.
StoredOrder(n, req) ==
    NewOrderDoc([k \in DOMAIN OrderData(req) \cup {"orderId"} |->
                    IF k = "orderId" THEN n ELSE OrderData(req)[k]])

\* An order as createCardOrder has stored it for a cart: paid at its creation.
StoredCardOrder(n, cart) ==
    NewOrderDoc([orderId |-> n, user |-> cart.user, cartItems |-> cart.cartItems,
                 isPaid |-> TRUE, paidAt |-> 0])

StoredOrders ==
    {<<o1, o2>> :
        o1 \in {StoredOrder(1, r) : r \in GoodRequests} \cup {StoredCardOrder(1, PlainCart)},
        o2 \in {StoredOrder(2, r) : r \in GoodRequests} \cup {StoredCardOrder(2, PlainCart)}}

InitTransitions ==
    /\ products = InitProducts
    /\ orders \in StoredOrders
    /\ createdFrom = <<>>
    /\ carts = <<>>
    /\ now \in 0 .. MaxTime
    /\ po = [p \in OrderProcs |-> IdlePo]
    /\ wh = [h \in WebhookProcs |-> IdleWh]
    /\ cp = [c \in CartProcs |-> IdleCp]
    /\ tr = [t \in TransProcs |-> IdleTr]

NextTransitions ==
    \/ \E t \in TransProcs, id \in 1 .. Len(orders) + 1 : updateOrderToPaid(t, id)
    \/ \E t \in TransProcs, id \in 1 .. Len(orders) + 1 : updateOrderToDelivered(t, id)
    \/ \E t \in TransProcs, id \in 1 .. Len(orders) + 1 : softDeleteOrder(t, id)
    \/ \E t \in TransProcs : orderSave(t)

SpecTransitions == InitTransitions /\ [][NextTransitions]_vars


\* C1: in every reachable state, also when two createCashOrder requests
\* interleave their id generation and their inserts, no two orders in the
\* collection (deleted or not) have the same orderId.
OrderIdsUnique ==
    \A i, j \in OrderIdxs : i # j => orders[i].orderId # orders[j].orderId

\* Two requests drew the same id and raced: one was stored, the other was
\* refused by the index, with no deleted order involved.
RaceOnOrderId ==
    /\ \E p \in OrderProcs : po[p].result.error = "DuplicateKey"
    /\ Len(orders) = 1
    /\ ~orders[1].deleted

\* C2: however often the payment event of one cart is delivered, and however
\* the deliveries interleave, at most one order is created from that cart and
\* the sold counters are raised once by its quantities.
OneOrderPerPaymentEvent ==
    \A k \in CartIdxs :
        Cardinality({i \in OrderIdxs : createdFrom[i] = k}) <= 1

---------------------------------------------------------------------------
\* Properties of soft deletion.

Roles == {"admin", "manager", "user"}
IncludeDeletedParams == {"true", "false", ""}

\* C3: once an order is deleted it stays deleted, and no read without the
\* admin override returns it: not findSpecificOrder by its id, for any role,
\* not the listing getOrder, not the findById of the transitions.
InvisibleWithoutOverride(i) ==
    /\ \A role \in Roles, param \in IncludeDeletedParams :
          ~(role = "admin" /\ param = "true")
              => findSpecificOrder(i, role, param) # i
    /\ \A role \in Roles, userId \in Users \cup {"none"} :
          i \notin getOrder(role, userId)
    /\ findById(i) # i

DeletedStaysInvisible ==
    /\ [](\A i \in OrderIdxs : orders[i].deleted => InvisibleWithoutOverride(i))
    /\ [][\A i \in OrderIdxs : orders[i].deleted => orders'[i].deleted]_vars

\* An order was deleted and another order has been placed since.
DeletedThenPlaced ==
    /\ Len(orders) = 2
    /\ orders[1].deleted
    /\ ~orders[2].deleted
    /\ getOrder("admin", "none") = {2}

\* C4: a deleted order is returned, with deleted = true, by findSpecificOrder
\* for an admin with includeDeleted=true and by findDeletedOrders.
OverrideReturnsDeleted ==
    \A i \in OrderIdxs :
        orders[i].deleted =>
            /\ findSpecificOrder(i, "admin", "true") = i
            /\ i \in findDeletedOrders

---------------------------------------------------------------------------
\* Properties of totals.

LineSum(items) ==
    SumSeq([n \in 1 .. Len(items) |-> items[n].quantity * items[n].price])

\* C5: in every stored state of a cart, between the writes of one request
\* too, totalCartPrice is the sum of quantity * price over the stored items.
CartSubtotalMatchesItems ==
    \A k \in CartIdxs :
        ~carts[k].gone => carts[k].totalCartPrice = LineSum(carts[k].cartItems)

\* C6: with a coupon of discount d, 0 <= d <= 100, on a subtotal s, the order
\* createCashOrder stores and the total applyCoupon computes are
\* max(0, s - s*d/100), which is not negative.
PercentTotal(s, d) == Max(0, s - (s * d) \div 100)

TotalIsPercentOff ==
    /\ \A i \in OrderIdxs :
          (/\ createdFrom[i] = 0
           /\ orders[i].coupon # "none"
           /\ Coupons[orders[i].coupon].discount \in 0 .. 100)
          => /\ orders[i].totalAfterDiscount =
                   PercentTotal(orders[i].totalBeforeDiscount,
                                Coupons[orders[i].coupon].discount)
             /\ orders[i].totalAfterDiscount >= 0
    /\ \A c \in CartProcs :
          (cp[c].pc = "save" /\ cp[c].op = "coupon" /\ cp[c].quantity \in 0 .. 100)
          => /\ cp[c].after = PercentTotal(cp[c].total, cp[c].quantity)
             /\ cp[c].after >= 0

\* C7: an order placed by createCashOrder without a coupon is stored with
\* totalAfterDiscount = totalBeforeDiscount = the sum of price * quantity over
\* its lines.
NoCouponTotalIsSubtotal ==
    \A i \in OrderIdxs :
        (createdFrom[i] = 0 /\ orders[i].coupon = "none")
        => /\ orders[i].totalAfterDiscount = orders[i].totalBeforeDiscount
           /\ orders[i].totalBeforeDiscount = LineSum(orders[i].cartItems)

\* An order of two lines, one of them of several units, placed without a
\* coupon and answered.
NoCouponOrderPlaced ==
    /\ po["a"].pc = "done"
    /\ po["a"].result.status = 201
    /\ Len(orders) = 1
    /\ orders[1].coupon = "none"
    /\ Len(orders[1].cartItems) = 2
    /\ \E n \in 1 .. 2 : orders[1].cartItems[n].quantity > 1

\* C8: every stored order, from createCashOrder or from createCardOrder, has
\* totalBeforeDiscount and totalAfterDiscount set, with
\* 0 <= totalAfterDiscount <= totalBeforeDiscount.
OrderTotalsSet ==
    \A i \in OrderIdxs :
        /\ orders[i].totalBeforeDiscount # Undefined
        /\ orders[i].totalAfterDiscount # Undefined
        /\ 0 <= orders[i].totalAfterDiscount
        /\ orders[i].totalAfterDiscount <= orders[i].totalBeforeDiscount

---------------------------------------------------------------------------
\* Properties of refusals.

\* C9: applyCoupon with a coupon whose expire is before now answers with a
\* failure, and the stored carts (items, totalCartPrice and
\* totalPriceAfterDiscount) are as they were before the call.
ExpiredCouponRejected ==
    [][\A c \in CartProcs, name \in DOMAIN Coupons :
          (Coupons[name].expire < now /\ applyCoupon(c, name))
          => /\ cp'[c].pc = "done"
             /\ cp'[c].result.status = 400
             /\ carts' = carts]_vars

\* An expired coupon was refused while the caller had a cart with a total.
ExpiredCouponRefusedOnCart ==
    \E c \in CartProcs :
        /\ cp[c].result.error = "ExpiredCoupon"
        /\ CartFindOne(CartUser(c)) # 0
        /\ carts[CartFindOne(CartUser(c))].totalCartPrice # Undefined

\* C10: createCashOrder with products missing, not an array or empty answers
\* InvalidInput, and the orders and the products are unchanged.
EmptyProductsRejected ==
    [][\A p \in OrderProcs, req \in Requests :
          (/\ req.products.kind # "array" \/ req.products.items = <<>>
           /\ createCashOrder(p, req))
          => /\ po'[p] = Done(0, Failure(400, "InvalidInput"))
             /\ orders' = orders
             /\ products' = products]_vars

\* A request with an empty products array was refused while an order of
\* another request was stored.
EmptyProductsRefused ==
    /\ \E p \in OrderProcs : po[p].result = Failure(400, "InvalidInput")
    /\ Len(orders) = 1

\* C11: createCashOrder with a coupon that does not exist, has no expire or
\* one that is not a date, is expired, or has a discount outside 0..100
\* answers with a failure; no order is stored and no product changes.
CouponRefused(name) ==
    \/ name \notin DOMAIN Coupons
    \/ Coupons[name].expireKind # "date"
    \/ Coupons[name].expire < now
    \/ Coupons[name].discount \notin 0 .. 100

BadCouponAbortsOrder ==
    [][\A p \in OrderProcs, req \in Requests :
          (/\ req.coupon # ""
           /\ CouponRefused(req.coupon)
           /\ createCashOrder(p, req))
          => /\ po'[p].pc = "done"
             /\ po'[p].order = 0
             /\ po'[p].result.status \in {400, 404}
             /\ orders' = orders
             /\ products' = products]_vars

\* Two requests were refused for their coupons, one for a discount out of
\* range and one for its expire, and nothing is stored.
BadCouponsRefused ==
    /\ po["a"].result.error = "InvalidDiscount"
    /\ po["b"].result.error \in {"NoExpiry", "InvalidExpiry", "ExpiredCoupon"}
    /\ orders = <<>>

\* C12: a createCashOrder request that is answered with a failure has stored
\* no order; a failure after the order is stored (bulkWrite, the order
\* counts) is not answered as an error.
FailureMeansNothingStored ==
    \A p \in OrderProcs :
        (po[p].pc = "done" /\ po[p].result.status # 201) => po[p].order = 0

\* C20: when the sender fails to deliver an e-mail of a createCashOrder
\* request, the order stays stored and the request is not answered with a
\* failure: it goes on to its 201 response with the order.
EmailFailureKeepsOrder ==
    \A p \in OrderProcs :
        po[p].notified = "failed"
        => /\ po[p].order \in OrderIdxs
           /\ po[p].pc \in {"respond", "done"}
           /\ po[p].pc = "done" => po[p].result.status = 201

\* A request whose e-mails failed was answered 201 with its order.
AnsweredAfterEmailFailure ==
    \E p \in OrderProcs :
        /\ po[p].notified = "failed"
        /\ po[p].pc = "done"
        /\ po[p].result.status = 201
        /\ po[p].order \in OrderIdxs

---------------------------------------------------------------------------
\* Properties of the sequencer.

\* C21: the existence check of pre('validate') sees soft-deleted orders: a
\* candidate that is the orderId of a soft-deleted order is taken as a
\* collision and is not assigned to the new order.
DeletedIdIsCollision ==
    [][\A p \in OrderProcs :
          (preValidate(p) /\ po'[p].pc = "insert")
          => ~\E i \in OrderIdxs :
                 orders[i].deleted /\ orders[i].orderId = po'[p].id]_vars

\* C22: when the insert of a new order is refused by the unique index on
\* orderId, the creation goes back to draw another candidate; the request
\* is not answered with a failure.
DuplicateKeyRetries ==
    [][\A p \in OrderProcs :
          (orderInsert(p) /\ DuplicateKey(po[p].id))
          => /\ po'[p].pc = "gen"
             /\ po'[p].result = NoResult]_vars

\* C23: the generation of an orderId ends after at most 5 candidates.  Each
\* turn of pre('validate') counts one candidate; a candidate that the lookup
\* does not find is assigned at once; when the fifth candidate collides too
\* the creation fails with IdGenerationExhausted, with no orderId assigned
\* and no order stored.
GenerationBounded ==
    [][\A p \in OrderProcs :
          preValidate(p)
          => /\ orders' = orders
             /\ po[p].retries < maxRetries
             /\ po'[p].pc \in {"gen", "insert", "done"}
             /\ po'[p].pc = "insert"
                   => /\ po'[p].retries = po[p].retries + 1
                      /\ OrderFindOne([orderId |-> po'[p].id], NoOptions) = 0
             /\ po'[p].pc = "gen"
                   => /\ po'[p].retries = po[p].retries + 1
                      /\ po'[p].retries < maxRetries
                      /\ po'[p].id = 0
                      /\ OrderFind([x \in {} |-> 0], NoOptions) # {}
             /\ po'[p].pc = "done"
                   => /\ po[p].retries = maxRetries - 1
                      /\ po'[p] = Done(0, Failure(500, "IdGenerationExhausted"))
                      /\ OrderFind([x \in {} |-> 0], NoOptions) # {}]_vars

\* A request drew five candidates that all collided with the stored order
\* and was answered IdGenerationExhausted; no second order is stored.
GenerationExhausted ==
    \E p \in OrderProcs :
        /\ po[p].pc = "done"
        /\ po[p].result = Failure(500, "IdGenerationExhausted")
        /\ po[p].order = 0
        /\ Len(orders) = 1

---------------------------------------------------------------------------
\* Properties of the cart service.

\* The units of a product that are available: its quantity, and none for a
\* product that stores no quantity.
Available(productId) == Get(products[productId], "quantity", 0)

\* C16: addProductToCart answers ProductNotFound for an unknown product,
\* InsufficientStock when the quantity asked for is more than the product
\* has available, and InvalidQuantity when the quantity is not a positive
\* integer; a request that is refused is over, and the carts are unchanged.
AddItemRefusals ==
    [][\A c \in CartProcs, productId \in ProductIds \cup {"p9"},
          color \in Colors, quantity \in 0 .. MaxQty :
          addProductToCart(c, productId, color, quantity)
          => /\ carts' = carts
             /\ ~ProductExists(productId)
                   => cp'[c] = CartDone(Failure(404, "ProductNotFound"))
             /\ (ProductExists(productId) /\ quantity > Available(productId))
                   => cp'[c] = CartDone(Failure(400, "InsufficientStock"))
             /\ (ProductExists(productId) /\ quantity < 1)
                   => cp'[c] = CartDone(Failure(400, "InvalidQuantity"))]_vars

\* C17: in every reachable state each user has at most one cart, also
\* when two first addProductToCart requests of one user both find no cart
\* before either creates one.
OneCartPerUser ==
    \A i \in CartIdxs, j \in CartIdxs :
        (/\ ~carts[i].gone /\ ~carts[j].gone
         /\ carts[i].user = carts[j].user)
        => i = j

\* C24: in every reachable state a cart's totalPriceAfterDiscount, when it
\* has one, is a coupon's discount of the cart's current totalCartPrice:
\* every change of the items after applyCoupon clears it, however the
\* requests on the cart interleave.
DiscountFromCurrentSubtotal ==
    \A k \in CartIdxs :
        (~carts[k].gone /\ carts[k].totalPriceAfterDiscount # Undefined)
        => /\ carts[k].totalCartPrice # Undefined
           /\ \E name \in DOMAIN Coupons :
                 carts[k].totalPriceAfterDiscount
                    \in ToFixed2(CouponPrice(carts[k].totalCartPrice,
                                             Coupons[name].discount))

\* Whether two cart items are of the same product and variant.
SamePair(x, y) == x.product = y.product /\ x.color = y.color

\* C25: addProductToCart requests of one user, one after the other, leave
\* at most one item per product and variant in the cart.  A request for a
\* pair the cart has overwrites the quantity of its item with the quantity
\* asked for; a request for a new pair appends one item; the other items
\* stay as they are.
AddItemOverwrites ==
    [][/\ cartCreate("c1")
          => carts' = Append(carts,
                        [user |-> CartUser("c1"),
                         cartItems |-> <<StoredItem(cp["c1"].item, 1)>>,
                         totalCartPrice |-> Undefined,
                         totalPriceAfterDiscount |-> Undefined,
                         gone |-> FALSE])
       /\ (cartSave("c1") /\ cp["c1"].op = "add")
          => LET old == carts[cp["c1"].cart].cartItems
                 new == carts'[cp["c1"].cart].cartItems
                 index == cp["c1"].index
             IN /\ cp'["c1"].result.status = 200
                /\ \A i, j \in 1 .. Len(new) : SamePair(new[i], new[j]) => i = j
                /\ \A i \in 1 .. Len(old) : i # index => new[i] = old[i]
                /\ IF cp["c1"].wItem = "push"
                   THEN /\ Len(new) = Len(old) + 1
                        /\ SamePair(new[Len(new)], cp["c1"].item)
                        /\ new[Len(new)].quantity = cp["c1"].item.quantity
                   ELSE /\ Len(new) = Len(old)
                        /\ index > 0
                              => /\ SamePair(new[index], old[index])
                                 /\ new[index].quantity = cp["c1"].quantity]_vars

\* The cart holds an item for each of the four pairs; addProductToCart has
\* found the pair of its request among them and set a new quantity on its
\* item, which the save will write.
FourPairsOneOverwritten ==
    /\ cp["c1"].pc = "save"
    /\ cp["c1"].op = "add"
    /\ cp["c1"].wItem = "set"
    /\ Len(carts[cp["c1"].cart].cartItems) = 4
    /\ carts[cp["c1"].cart].cartItems[cp["c1"].index].quantity # cp["c1"].quantity

---------------------------------------------------------------------------
\* Properties of card orders.

\* C26: every order that createCardOrder stores has isPaid true, paidAt set
\* and paymentMethodType card, and its lines are the items of the cart that
\* the session names.
CardOrderPaidByCard ==
    [][\A h \in WebhookProcs :
          (cardInsert(h) /\ Len(orders') = Len(orders) + 1)
          => LET order == orders'[Len(orders')]
                 cart == carts[wh[h].cart]
             IN /\ order.isPaid
                /\ order.paidAt # Undefined
                /\ order.paymentMethodType = "card"
                /\ ~cart.gone
                      => /\ Len(order.cartItems) = Len(cart.cartItems)
                         /\ \A n \in 1 .. Len(cart.cartItems) :
                               /\ order.cartItems[n].product = cart.cartItems[n].product
                               /\ order.cartItems[n].quantity = cart.cartItems[n].quantity
                               /\ order.cartItems[n].price = cart.cartItems[n].price]_vars

\* C27: updateCartItemQuantity answers InvalidQuantity for a quantity that
\* is not a positive integer, CartNotFound when the caller has no cart,
\* ItemNotFound when the cart has no item of that id, and InsufficientStock
\* when the quantity is more than the item's product has available; a
\* request that is refused is over, and the carts are unchanged.
UpdateQuantityRefusals ==
    [][\A c \in CartProcs, itemId \in 1 .. MaxQty + 1, quantity \in 0 .. MaxQty :
          updateCartItemQuantity(c, itemId, quantity)
          => LET cart == CartFindOne(CartUser(c))
                 found == IF cart = 0 THEN {}
                          ELSE {i \in 1 .. Len(carts[cart].cartItems) :
                                   carts[cart].cartItems[i]["_id"] = itemId}
             IN /\ carts' = carts
                /\ quantity < 1
                      => cp'[c] = CartDone(Failure(400, "InvalidQuantity"))
                /\ (quantity >= 1 /\ cart = 0)
                      => cp'[c] = CartDone(Failure(404, "CartNotFound"))
                /\ (quantity >= 1 /\ cart # 0 /\ found = {})
                      => cp'[c] = CartDone(Failure(404, "ItemNotFound"))
                /\ (quantity >= 1 /\ found # {})
                      => \A i \in found :
                            quantity > Available(carts[cart].cartItems[i].product)
                            => cp'[c] = CartDone(Failure(400, "InsufficientStock"))]_vars

---------------------------------------------------------------------------
\* Properties of the transitions.

\* C15: no step moves an order backward: once isPaid, isDelivered or deleted
\* is true on a stored order it is never false again, however the requests
\* of updateOrderToPaid, updateOrderToDelivered and softDeleteOrder
\* interleave.
NoTransitionBackward ==
    [][\A i \in OrderIdxs :
          /\ orders[i].isPaid => orders'[i].isPaid
          /\ orders[i].isDelivered => orders'[i].isDelivered
          /\ orders[i].deleted => orders'[i].deleted]_vars

\* Three requests on one order were all answered 200, and the order is paid,
\* delivered and deleted: each save kept what the other two had written.
AllFlagsSetByInterleavedSaves ==
    \E i \in OrderIdxs :
        /\ orders[i].isPaid /\ orders[i].isDelivered /\ orders[i].deleted
        /\ \A t \in TransProcs :
              /\ tr[t].pc = "done"
              /\ tr[t].id = i
              /\ tr[t].result.status = 200

---------------------------------------------------------------------------
\* Properties of the listing.

DeletedOrderIsFrozen ==
    [][\A t \in TransProcs, id \in OrderIdxs :
          (/\ orders[id].deleted
           /\ \/ updateOrderToPaid(t, id)
              \/ updateOrderToDelivered(t, id)
              \/ softDeleteOrder(t, id))
          => /\ tr'[t].pc = "done"
             /\ tr'[t].result = Failure(404, "OrderNotFound")
             /\ orders' = orders]_vars

\* An order that is neither paid nor delivered was soft-deleted, and
\* requests to pay it and to delete it again were answered 404.
TransitionsRefusedOnDeleted ==
    \E i \in OrderIdxs :
        /\ orders[i].deleted /\ ~orders[i].isPaid /\ ~orders[i].isDelivered
        /\ \E t \in TransProcs :
              /\ tr[t].op = "paid" /\ tr[t].id = i
              /\ tr[t].result = Failure(404, "OrderNotFound")
        /\ \E t \in TransProcs :
              /\ tr[t].op = "deleted" /\ tr[t].id = i
              /\ tr[t].result = Failure(404, "OrderNotFound")

\* C30: in every stored order paidAt is set exactly when isPaid is true,
\* deliveredAt exactly when isDelivered is true, and deletedAt exactly when
\* deleted is true.
TimestampsMatchFlags ==
    \A i \in OrderIdxs :
        /\ orders[i].isPaid <=> orders[i].paidAt # Undefined
        /\ orders[i].isDelivered <=> orders[i].deliveredAt # Undefined
        /\ orders[i].deleted <=> orders[i].deletedAt # Undefined

\* An order was marked paid and soft-deleted by two requests that were both
\* answered 200, and has not been delivered.
PaidAndDeletedNotDelivered ==
    \E i \in OrderIdxs :
        /\ orders[i].isPaid /\ orders[i].deleted /\ ~orders[i].isDelivered
        /\ \E t \in TransProcs :
              tr[t].op = "paid" /\ tr[t].id = i /\ tr[t].result.status = 200
        /\ \E t \in TransProcs :
              tr[t].op = "deleted" /\ tr[t].id = i /\ tr[t].result.status = 200

---------------------------------------------------------------------------
\* Properties of stock.

ExceedsStock(req) ==
    \E i \in 1 .. Len(req.products.items) :
        LET line == req.products.items[i]
        IN /\ ProductExists(line.id)
           /\ Has(products[line.id], "quantity")
           /\ line.quantity > products[line.id].quantity

UnknownProduct(req) ==
    \E i \in 1 .. Len(req.products.items) : ~ProductExists(req.products.items[i].id)

RECURSIVE UnitsOrdered(_, _)
UnitsOrdered(id, i) ==
    IF i = 0 THEN 0
    ELSE UnitsOrdered(id, i - 1)
         + SumSeq([n \in 1 .. Len(orders[i].cartItems) |->
                     IF orders[i].cartItems[n].product = id
                     THEN orders[i].cartItems[n].quantity ELSE 0])

\* C29: when no order creation is in progress and no bulkWrite has failed,
\* the sold counter of every product is its initial value plus the units of
\* the product on the lines of all stored orders, deleted ones included:
\* nothing but the creation of an order changes sold.
SoldMatchesOrders ==
    (/\ \A p \in OrderProcs : po[p].pc \in {"idle", "done"}
     /\ \A p \in OrderProcs : po[p].result.error # "BulkWriteFailed"
     /\ \A h \in WebhookProcs : wh[h].pc \in {"idle", "done"})
    => \A id \in ProductIds :
          products[id].sold = InitProducts[id].sold + UnitsOrdered(id, Len(orders))

---------------------------------------------------------------------------
\* Properties of reads.

\* C14: once createCashOrder has answered 201, findSpecificOrder for its
\* order returns lines whose price and name are the product's price and title
\* as the request saw them, whatever updateProduct has done since.
SnapshotSurvivesUpdates ==
    \A p \in OrderProcs :
        (/\ po[p].pc = "done"
         /\ po[p].result.status = 201
         /\ findSpecificOrder(po[p].order, "user", "") = po[p].order)
        => \A n \in 1 .. Len(orders[po[p].order].cartItems) :
              LET id == orders[po[p].order].cartItems[n].product
                  line == PopulatedItems(po[p].order)[n]
              IN /\ line.price = po[p].seen[id].price
                 /\ line.name = po[p].seen[id].title

\* An order was placed and answered, and a product on it has since been
\* repriced and renamed.
ProductChangedAfterOrder ==
    /\ po["a"].pc = "done"
    /\ po["a"].result.status = 201
    /\ findSpecificOrder(po["a"].order, "user", "") = po["a"].order
    /\ \E n \in 1 .. Len(orders[po["a"].order].cartItems) :
          LET id == orders[po["a"].order].cartItems[n].product
          IN /\ products[id].price # po["a"].seen[id].price
             /\ products[id].title # po["a"].seen[id].title

====
